---------------------------- MODULE Spec2Model ----------------------------
(***************************************************************************)
(* Big-trip board: the BoardPresenter of src/src/presenter/                *)
(* board-presenter.js, driven by the notifications of its four models, and *)
(* the FilterView template of src/unnamed/part_000.                        *)
(*                                                                         *)
(* A handler is one atomic step (the browser runs it to completion).  A    *)
(* handler that throws (a method call on null or undefined) keeps the      *)
(* assignments it made before the throw and skips the rest; the record     *)
(* field "thrown" carries that through the calls of one handler.           *)
(***************************************************************************)
EXTENDS Integers, Sequences, FiniteSets, TLC

\* ------------------------------------------------------------------ bounds
MaxPoints == 2
MaxItems == 2
MaxCount == 1

\* --------------------------------------------------------------- constants
SortTypes == {"DAY", "PRICE", "TIME"}
FilterTypes == {"EVERYTHING", "FUTURE", "PRESENT", "PAST"}
UpdateTypes == {"PATCH", "MINOR", "MAJOR", "INIT"}
UserActions == {"UPDATE_POINT", "ADD_POINT", "DELETE_POINT"}
ChangeTypes == {"MINOR", "MAJOR"}

\* The day the filters compare a point's dates with.
NowDay == 3

\* The date ranges and prices a point is drawn from: a past and a future trip
\* of equal duration, the later one the dearer.
Trips ==
    { [dateFrom |-> 1, dateTo |-> 2, basePrice |-> 2],
      [dateFrom |-> 4, dateTo |-> 5, basePrice |-> 3] }

PointIds == 1..MaxPoints

MakePoint(i, t) ==
    [id |-> i, dateFrom |-> t.dateFrom, dateTo |-> t.dateTo, basePrice |-> t.basePrice]

AllPoints == { MakePoint(i, t) : i \in PointIds, t \in Trips }

Range(q) == { q[i] : i \in 1..Len(q) }

Ids(q) == [i \in 1..Len(q) |-> q[i].id]

\* The arrays a points model can hold: points of distinct ids.  The ids are
\* only compared for equality, so the array is kept in the order of the ids;
\* the order of the array decides nothing but the ties of a sort.
PointArrays ==
    UNION { { q \in [1..n -> AllPoints] :
                \A i, j \in 1..n : i < j => q[i].id < q[j].id } : n \in 0..MaxPoints }

InsertPoint(q, p) ==
    LET Before(x) == x.id < p.id
        After(x)  == x.id > p.id
    IN  SelectSeq(q, Before) \o << p >> \o SelectSeq(q, After)

VARIABLES
    \* the models
    modelPoints,        \* PointsModel.points
    modelFilter,        \* FilterModel.filter
    offersByType,       \* OfferModel.offersByType.length
    destinations,       \* DestinationModel.destinations.length
    initialised,        \* the models whose init() has run
    \* the board presenter
    board,              \* the fields of BoardPresenter and the views it left in the DOM
    last,               \* the operation that ran last
    \* the filter view
    filters,            \* FilterView.#filters
    currentFilterType,  \* FilterView.#currentFilterType
    template,           \* what FilterView.template rendered, once it has
    \* the view actions
    viewAction          \* the arguments of the last #handleViewAction call followed

vars == <<modelPoints, modelFilter, offersByType, destinations, initialised, board, last,
          filters, currentFilterType, template, viewAction>>

modelVars == <<modelPoints, modelFilter, offersByType, destinations, initialised>>
boardVars == <<modelPoints, modelFilter, offersByType, destinations, initialised, board, last>>
filterViewVars == <<filters, currentFilterType, template>>


\* ------------------------------------------------- filter.js and utils.js
\* filter[filterType](points): the points the filter keeps, in array order.
Matches(filterType, p) ==
    CASE filterType = "EVERYTHING" -> TRUE
      [] filterType = "FUTURE"     -> p.dateFrom > NowDay
      [] filterType = "PRESENT"    -> p.dateFrom <= NowDay /\ NowDay <= p.dateTo
      [] filterType = "PAST"       -> p.dateTo < NowDay

filter(filterType, q) ==
    LET Keep(p) == Matches(filterType, p) IN SelectSeq(q, Keep)

\* The comparators: negative when a goes first, positive when b does.
sortDay(a, b) == a.dateFrom - b.dateFrom
sortPrice(a, b) == b.basePrice - a.basePrice
sortTime(a, b) == (b.dateTo - b.dateFrom) - (a.dateTo - a.dateFrom)

Compare(sortType, a, b) ==
    CASE sortType = "DAY"   -> sortDay(a, b)
      [] sortType = "PRICE" -> sortPrice(a, b)
      [] sortType = "TIME"  -> sortTime(a, b)
      [] OTHER              -> 0

\* Array.prototype.sort: a stable sort, here by insertion.  x goes before the
\* first element the comparator puts after it.
RECURSIVE InsertSorted(_, _, _)
InsertSorted(sortType, q, x) ==
    IF q = << >> THEN << x >>
    ELSE IF Compare(sortType, Head(q), x) > 0 THEN << x >> \o q
    ELSE << Head(q) >> \o InsertSorted(sortType, Tail(q), x)

RECURSIVE ArraySort(_, _)
ArraySort(sortType, q) ==
    IF q = << >> THEN << >>
    ELSE InsertSorted(sortType, ArraySort(sortType, SubSeq(q, 1, Len(q) - 1)), q[Len(q)])

\* ---------------------------------------------------- framework/render.js
\* A view is "null" (no object), "detached" (an object outside the DOM) or
\* "rendered" (its element is in the DOM).
render(view) == "rendered"

remove(view) == IF view = "null" THEN "null" ELSE "detached"

\* ------------------------------------------------------- the board presenter
\* The models as a handler reads them.
Models == [points |-> modelPoints, filter |-> modelFilter,
           offersByType |-> offersByType, destinations |-> destinations]

NoPresenters == [i \in {} |-> 0]

NoOrphans == [sort |-> FALSE, noPoints |-> FALSE, points |-> FALSE]

\* BoardPresenter's fields after construction.  pointOrder is the order of the
\* point presenters' components in the event list; orphans tells which kinds
\* of view are still in the DOM with no field referring to them any more.
NewBoard ==
    [ isLoading          |-> TRUE,
      loadingComponent   |-> "detached",
      errorComponent     |-> "detached",
      eventListComponent |-> "detached",
      sortComponent      |-> "null",
      noPointsComponent  |-> "null",
      pointPresenters    |-> NoPresenters,
      pointOrder         |-> << >>,
      newPointPresenter  |-> "null",
      currentSortType    |-> "DAY",
      filterType         |-> "EVERYTHING",
      orphans            |-> NoOrphans,
      thrown             |-> FALSE ]

\* get points() with the PRICE case sorting by day.
points_PriceByDay(sortType, m) ==
    LET filteredPoints == filter(m.filter, m.points)
    IN  CASE sortType = "DAY"   -> ArraySort("DAY", filteredPoints)
          [] sortType = "PRICE" -> ArraySort("DAY", filteredPoints)
          [] sortType = "TIME"  -> ArraySort("TIME", filteredPoints)
          [] OTHER              -> filteredPoints

\* get points(): the filtered points in the order of the current sort type.
points(sortType, m) ==
    LET filteredPoints == filter(m.filter, m.points)
    IN  CASE sortType = "DAY"   -> ArraySort("DAY", filteredPoints)
          [] sortType = "PRICE" -> ArraySort("PRICE", filteredPoints)
          [] sortType = "TIME"  -> ArraySort("TIME", filteredPoints)
          [] OTHER              -> filteredPoints

\* A call on null or undefined: the handler stops here.
Throw(b) == [b EXCEPT !.thrown = TRUE]

\* NewPointPresenter.destroy() and init(), called through the field.
newPointPresenterDestroy(b) ==
    IF b.thrown THEN b
    ELSE IF b.newPointPresenter = "null" THEN Throw(b)
    ELSE [b EXCEPT !.newPointPresenter = "closed"]

newPointPresenterInit(b) ==
    IF b.thrown THEN b
    ELSE IF b.newPointPresenter = "null" THEN Throw(b)
    ELSE [b EXCEPT !.newPointPresenter = "open"]

clearBoard(b, resetSortType) ==
    IF b.thrown THEN b
    ELSE newPointPresenterDestroy(
           [b EXCEPT !.pointPresenters   = NoPresenters,
                     !.pointOrder        = << >>,
                     !.sortComponent     = remove(@),
                     !.noPointsComponent = remove(@),
                     !.loadingComponent  = remove(@),
                     !.currentSortType   = IF resetSortType THEN "DAY" ELSE @])

Without(q, i) == LET Other(j) == j # i IN SelectSeq(q, Other)

\* A new PointPresenter, initialised with the point and stored under its id.
\* The presenter the map held under that id stays in the list, unreferenced.
renderPoint(b, point) ==
    LET held == point.id \in DOMAIN b.pointPresenters
    IN  [b EXCEPT !.pointPresenters =
                      [i \in DOMAIN @ \cup {point.id} |->
                          IF i = point.id THEN point ELSE @[i]],
                  !.pointOrder = Append(Without(@, point.id), point.id),
                  !.orphans.points = @ \/ held]

RECURSIVE renderPoints(_, _)
renderPoints(b, q) ==
    IF q = << >> THEN b ELSE renderPoints(renderPoint(b, Head(q)), Tail(q))

renderSort(b) ==
    [b EXCEPT !.sortComponent = render("detached"),
              !.orphans.sort = @ \/ b.sortComponent = "rendered"]

renderLoading(b) == [b EXCEPT !.loadingComponent = render(@)]

renderError(b) ==
    IF b.thrown THEN b ELSE [b EXCEPT !.errorComponent = render(@)]

renderNoPoints(b) ==
    [b EXCEPT !.noPointsComponent = render("detached"),
              !.orphans.noPoints = @ \/ b.noPointsComponent = "rendered"]

renderPointList(b, q) ==
    renderPoints([b EXCEPT !.eventListComponent = render(@)], q)

renderBoard(b, m) ==
    IF b.thrown THEN b
    ELSE LET b1 == [b EXCEPT !.filterType = m.filter]
             q  == points(b.currentSortType, m)
         IN  IF b1.isLoading THEN renderLoading(b1)
             ELSE IF Len(q) = 0 THEN renderNoPoints(b1)
             ELSE renderPointList(renderSort(b1), q)


\* The INIT case with && for ||: the error only when both collections are empty.
handleInit_AndForOr(b, m) ==
    LET b1 == [b EXCEPT !.isLoading = FALSE, !.loadingComponent = remove(@)]
    IN  IF m.offersByType = 0 /\ m.destinations = 0
        THEN renderError(b1)
        ELSE renderBoard([b1 EXCEPT !.newPointPresenter = "closed"], m)

\* The INIT case of #handleModelEvent.
handleInit(b, m) ==
    LET b1 == [b EXCEPT !.isLoading = FALSE, !.loadingComponent = remove(@)]
    IN  IF m.offersByType = 0 \/ m.destinations = 0
        THEN renderError(b1)
        ELSE renderBoard([b1 EXCEPT !.newPointPresenter = "closed"], m)

\* #handleModelEvent with a PATCH handled as a MINOR.
handleModelEvent_PatchRerenders(b, updateType, data, m) ==
    IF b.thrown THEN b
    ELSE CASE updateType = "PATCH" -> renderBoard(clearBoard(b, FALSE), m)
           [] updateType = "MINOR" -> renderBoard(clearBoard(b, FALSE), m)
           [] updateType = "MAJOR" -> renderBoard(clearBoard(b, TRUE), m)
           [] updateType = "INIT"  -> handleInit(b, m)
           [] OTHER -> b

\* #handleModelEvent(updateType, data), with the models as they are at the call.
handleModelEvent(b, updateType, data, m) ==
    IF b.thrown THEN b
    ELSE CASE updateType = "PATCH" ->
                \* this.#pointPresenters.get(data.id).init(data)
                IF "id" \in DOMAIN data /\ data.id \in DOMAIN b.pointPresenters
                THEN [b EXCEPT !.pointPresenters[data.id] = data]
                ELSE Throw(b)
           [] updateType = "MINOR" -> renderBoard(clearBoard(b, FALSE), m)
           [] updateType = "MAJOR" -> renderBoard(clearBoard(b, TRUE), m)
           [] updateType = "INIT"  -> handleInit(b, m)
           [] OTHER -> b

\* createPoint() with the form initialised before the filter is set.
createPointBody_InitFirst(b, m) ==
    handleModelEvent(newPointPresenterInit([b EXCEPT !.currentSortType = "DAY"]), "MAJOR",
                     [filter |-> m.filter], m)

\* createPoint(): FilterModel.setFilter sets the filter and notifies the
\* observers before it returns; m is the models after the assignment.
createPointBody(b, m) ==
    newPointPresenterInit(
        handleModelEvent([b EXCEPT !.currentSortType = "DAY"], "MAJOR",
                         [filter |-> m.filter], m))

\* #handleSortTypeChange with a clearBoard that resets the sort type.
handleSortTypeChange_Reset(b, sortType, m) ==
    IF b.currentSortType = sortType THEN b
    ELSE renderBoard(clearBoard([b EXCEPT !.currentSortType = sortType], TRUE), m)

\* #handleSortTypeChange without the early return.
handleSortTypeChange_NoReturn(b, sortType, m) ==
    renderBoard(clearBoard([b EXCEPT !.currentSortType = sortType], FALSE), m)

\* #handleSortTypeChange(sortType).  clearBoard is handed the sort type, a
\* string, whose resetSortType property is undefined: the default, false.
handleSortTypeChange(b, sortType, m) ==
    IF b.currentSortType = sortType THEN b
    ELSE renderBoard(clearBoard([b EXCEPT !.currentSortType = sortType], FALSE), m)

\* #handleModeChange(): the point presenters' resetView changes no field here.
handleModeChange(b) == newPointPresenterDestroy(b)

\* ----------------------------------------------------------------- actions
\* board.thrown tells whether the last handler threw; each handler starts clean.
Begin == [board EXCEPT !.thrown = FALSE]

Started == last.op # "new"

\* id is the id of the point a PATCH notification carried, 0 otherwise.
Op(name, type) == [op |-> name, type |-> type, same |-> FALSE, id |-> 0]

\* An observer call of the board presenter, the models already changed.
Notify(updateType, data) ==
    /\ board' = handleModelEvent(Begin, updateType, data,
                                 [points |-> modelPoints', filter |-> modelFilter',
                                  offersByType |-> offersByType',
                                  destinations |-> destinations'])
    /\ last' = [Op("handleModelEvent", updateType)
                    EXCEPT !.id = IF updateType = "PATCH" THEN data.id ELSE 0]

\* BoardPresenter.init(), called once, before the models load.
init ==
    /\ last.op = "new"
    /\ board' = renderBoard(Begin, Models)
    /\ last' = Op("init", "")
    /\ UNCHANGED <<modelVars, filterViewVars, viewAction>>

\* A model's init(), run once: it loads its collection (a load that fails
\* leaves it empty; nothing is retried) and then either notifies INIT itself
\* or leaves that to the model that loads last.
Loaded(updateType) ==
    \/ Notify(updateType, [none |-> TRUE])
    \/ /\ UNCHANGED board
       /\ last' = Op("load", "")

PointsModelInit ==
    /\ Started
    /\ "points" \notin initialised
    /\ initialised' = initialised \cup {"points"}
    /\ \E q \in PointArrays : modelPoints' = q
    /\ UNCHANGED <<modelFilter, offersByType, destinations, filterViewVars, viewAction>>
    /\ Loaded("INIT")

OfferModelInit ==
    /\ Started
    /\ "offers" \notin initialised
    /\ initialised' = initialised \cup {"offers"}
    /\ \E n \in 0..1 : offersByType' = n
    /\ UNCHANGED <<modelPoints, modelFilter, destinations, filterViewVars, viewAction>>
    /\ Loaded("INIT")

DestinationModelInit ==
    /\ Started
    /\ "destinations" \notin initialised
    /\ initialised' = initialised \cup {"destinations"}
    /\ \E n \in 0..1 : destinations' = n
    /\ UNCHANGED <<modelPoints, modelFilter, offersByType, filterViewVars, viewAction>>
    /\ Loaded("INIT")

\* PointsModel.updatePoint, addPoint and deletePoint: change the array, then
\* notify with the update type and the point.  A view hands updatePoint and
\* deletePoint a point of the array and addPoint a point with a new id.
PointsModelUpdatePoint(updateType, update) ==
    /\ \E i \in 1..Len(modelPoints) :
          /\ modelPoints[i].id = update.id
          /\ modelPoints' = [modelPoints EXCEPT ![i] = update]
    /\ UNCHANGED <<modelFilter, offersByType, destinations, initialised, filterViewVars>>
    /\ Notify(updateType, update)

PointsModelAddPoint(updateType, update) ==
    /\ Len(modelPoints) < MaxPoints
    /\ \A i \in 1..Len(modelPoints) : modelPoints[i].id # update.id
    /\ modelPoints' = InsertPoint(modelPoints, update)
    /\ UNCHANGED <<modelFilter, offersByType, destinations, initialised, filterViewVars>>
    /\ Notify(updateType, update)

PointsModelDeletePoint(updateType, update) ==
    /\ \E i \in 1..Len(modelPoints) :
          /\ modelPoints[i].id = update.id
          /\ modelPoints' = SubSeq(modelPoints, 1, i - 1)
                              \o SubSeq(modelPoints, i + 1, Len(modelPoints))
    /\ UNCHANGED <<modelFilter, offersByType, destinations, initialised, filterViewVars>>
    /\ Notify(updateType, update)

\* A #handleViewAction whose switch has no case for the action type.
NoModelOperation ==
    /\ board' = Begin
    /\ last' = Op("handleViewAction", "")
    /\ UNCHANGED <<modelVars, filterViewVars>>

\* #handleViewAction with DELETE_POINT forwarded to updatePoint.
handleViewAction_DeleteUpdates(actionType, updateType, update) ==
    CASE actionType = "UPDATE_POINT" -> PointsModelUpdatePoint(updateType, update)
      [] actionType = "ADD_POINT"    -> PointsModelAddPoint(updateType, update)
      [] actionType = "DELETE_POINT" -> PointsModelUpdatePoint(updateType, update)
      [] OTHER                       -> NoModelOperation

\* #handleViewAction(actionType, updateType, update).
handleViewAction(actionType, updateType, update) ==
    CASE actionType = "UPDATE_POINT" -> PointsModelUpdatePoint(updateType, update)
      [] actionType = "ADD_POINT"    -> PointsModelAddPoint(updateType, update)
      [] actionType = "DELETE_POINT" -> PointsModelDeletePoint(updateType, update)
      [] OTHER                       -> NoModelOperation

\* The view actions of the forms the board rendered after a successful INIT,
\* each through #handleViewAction; only a point that stays in the array is
\* notified with PATCH.
updatePoint ==
    /\ board.newPointPresenter # "null"
    /\ \E updateType \in UpdateTypes \ {"INIT"}, update \in AllPoints :
          handleViewAction("UPDATE_POINT", updateType, update)
    /\ UNCHANGED viewAction

addPoint ==
    /\ board.newPointPresenter # "null"
    /\ \E updateType \in ChangeTypes, update \in AllPoints :
          handleViewAction("ADD_POINT", updateType, update)
    /\ UNCHANGED viewAction

deletePoint ==
    /\ board.newPointPresenter # "null"
    /\ \E updateType \in ChangeTypes, i \in 1..Len(modelPoints) :
          handleViewAction("DELETE_POINT", updateType, modelPoints[i])
    /\ UNCHANGED viewAction

\* FilterModel.setFilter(updateType, filter), from the filter presenter.
setFilter ==
    /\ Started
    /\ \E updateType \in ChangeTypes, f \in FilterTypes :
          /\ modelFilter' = f
          /\ UNCHANGED <<modelPoints, offersByType, destinations, initialised, filterViewVars, viewAction>>
          /\ Notify(updateType, [filter |-> f])

\* BoardPresenter.createPoint(), from the new-event button.
createPoint ==
    /\ Started
    /\ modelFilter' = "EVERYTHING"
    /\ board' = createPointBody(Begin, [Models EXCEPT !.filter = "EVERYTHING"])
    /\ last' = Op("createPoint", "")
    /\ UNCHANGED <<modelPoints, offersByType, destinations, initialised, filterViewVars, viewAction>>

\* A click in a sort view that is in the DOM.
SortChange ==
    /\ Started
    /\ board.sortComponent = "rendered" \/ board.orphans.sort
    /\ \E sortType \in SortTypes :
          /\ board' = handleSortTypeChange(Begin, sortType, Models)
          /\ last' = [Op("handleSortTypeChange", sortType)
                          EXCEPT !.same = (board.currentSortType = sortType)]
    /\ UNCHANGED <<modelVars, filterViewVars, viewAction>>

\* A point presenter in the list opens its edit form.
ModeChange ==
    /\ Started
    /\ board.pointOrder # << >> \/ board.orphans.points
    /\ board' = handleModeChange(Begin)
    /\ last' = Op("handleModeChange", "")
    /\ UNCHANGED <<modelVars, filterViewVars, viewAction>>

NoViewAction == [actionType |-> "", updateType |-> "", update |-> << >>]

BoardInit ==
    /\ modelPoints = << >>
    /\ modelFilter = "EVERYTHING"
    /\ offersByType = 0
    /\ destinations = 0
    /\ initialised = {}
    /\ board = NewBoard
    /\ last = Op("new", "")
    /\ viewAction = NoViewAction

NotRendered == [rendered |-> FALSE, items |-> << >>]

\* No filter view yet.
FilterViewIdle ==
    /\ filters = << >>
    /\ currentFilterType = "EVERYTHING"
    /\ template = NotRendered

Init == BoardInit /\ FilterViewIdle

\* ------------------------------------------------------------ the filter view
\* createFilterItemTemplate that never disables the checked item.
createFilterItemTemplate_KeepCurrent(item, currentType) ==
    LET isChecked  == IF item.type = currentType THEN "checked" ELSE ""
        isDisabled == IF item.count = 0 /\ item.type # currentType THEN "disabled" ELSE ""
    IN  [id |-> item.type, value |-> item.type, attributes |-> << isChecked, isDisabled >>]

\* createFilterItemTemplate that checks the current item only when it has points.
createFilterItemTemplate_CheckedIfCount(item, currentType) ==
    LET isChecked  == IF item.type = currentType /\ item.count # 0 THEN "checked" ELSE ""
        isDisabled == IF item.count = 0 THEN "disabled" ELSE ""
    IN  [id |-> item.type, value |-> item.type, attributes |-> << isChecked, isDisabled >>]

\* The attributes of the radio input that createFilterItemTemplate writes
\* after value="...": ${isChecked} ${isDisabled}, each a word or empty.
createFilterItemTemplate(item, currentType) ==
    LET isChecked  == IF item.type = currentType THEN "checked" ELSE ""
        isDisabled == IF item.count = 0 THEN "disabled" ELSE ""
    IN  [id |-> item.type, value |-> item.type, attributes |-> << isChecked, isDisabled >>]

createFiltersTemplate(filterItems, currentType) ==
    [i \in 1..Len(filterItems) |-> createFilterItemTemplate(filterItems[i], currentType)]

FilterItems == [type : FilterTypes, count : 0..MaxCount]

FilterItemLists == UNION { [1..n -> FilterItems] : n \in 0..MaxItems }

\* new FilterView({filters, currentFilterType}), its fields assigned.
NewFilterView ==
    /\ filters \in FilterItemLists
    /\ currentFilterType \in FilterTypes
    /\ template = NotRendered

\* get template(), read through this.element at the end of the constructor.
GetTemplate ==
    /\ ~template.rendered
    /\ template' = [rendered |-> TRUE,
                    items |-> createFiltersTemplate(filters, currentFilterType)]
    /\ UNCHANGED <<boardVars, filters, currentFilterType, viewAction>>

InitFilter == BoardInit /\ NewFilterView

NextFilter == GetTemplate

SpecFilter == InitFilter /\ [][NextFilter]_vars

\* ------------------------------------------------------- the view actions
\* The board after init(), the models loaded and a successful INIT.
LoadedBoard ==
    /\ modelPoints \in PointArrays
    /\ modelFilter = "EVERYTHING"
    /\ offersByType = 1
    /\ destinations = 1
    /\ initialised = {"points", "offers", "destinations"}
    /\ board = handleInit(renderBoard(NewBoard, [Models EXCEPT !.points = << >>]), Models)
    /\ last = Op("handleModelEvent", "INIT")
    /\ viewAction = NoViewAction

\* A form calls onDataChange: #handleViewAction with its three arguments.
ViewAction ==
    /\ board.newPointPresenter # "null"
    /\ \E actionType \in UserActions \cup {"OTHER"},
          updateType \in UpdateTypes \ {"INIT"}, update \in AllPoints :
          /\ handleViewAction(actionType, updateType, update)
          /\ viewAction' = [actionType |-> actionType, updateType |-> updateType,
                             update |-> update]

InitViewAction == LoadedBoard /\ FilterViewIdle

NextViewAction == ViewAction

SpecViewAction == InitViewAction /\ [][NextViewAction]_vars

Next ==
    \/ init
    \/ PointsModelInit
    \/ OfferModelInit
    \/ DestinationModelInit
    \/ updatePoint
    \/ addPoint
    \/ deletePoint
    \/ setFilter
    \/ createPoint
    \/ SortChange
    \/ ModeChange

Spec == Init /\ [][Next]_vars


\* ------------------------------------------------------ what the board shows
LoadingShown == board.loadingComponent = "rendered"
ErrorShown == board.errorComponent = "rendered"
NoPointsShown == board.noPointsComponent = "rendered" \/ board.orphans.noPoints
SortShown == board.sortComponent = "rendered" \/ board.orphans.sort
PointsShown == board.pointOrder # << >> \/ board.orphans.points
ListShown == SortShown /\ board.eventListComponent = "rendered"

\* The last operation was this notification, handled by #handleModelEvent.
Handled(updateType) == last.op = "handleModelEvent" /\ last.type = updateType

\* A successful INIT has created the new-point presenter.
InitSucceeded == board.newPointPresenter # "null"

VisiblePoints == points(board.currentSortType, Models)

\* ----------------------------------------------------------------- claims

\* C1: an INIT notification handled while offersByType or destinations is
\* empty removes the loading view and shows the error view; it renders no
\* sort component, no no-points view and no point presenter, and it creates
\* no new-point presenter.
C1_InitWithoutDataShowsError ==
    [][ (last'.op = "handleModelEvent" /\ last'.type = "INIT"
            /\ (offersByType' = 0 \/ destinations' = 0))
        => /\ board'.loadingComponent # "rendered"
           /\ board'.errorComponent = "rendered"
           /\ ~board'.isLoading
           /\ board'.sortComponent = board.sortComponent
           /\ board'.noPointsComponent = board.noPointsComponent
           /\ board'.pointPresenters = board.pointPresenters
           /\ board'.pointOrder = board.pointOrder
           /\ board'.orphans = board.orphans
           /\ board'.newPointPresenter = board.newPointPresenter ]_vars

\* An INIT handled with the destinations loaded and the offers missing.
C1_Witness ==
    /\ Handled("INIT")
    /\ offersByType = 0 /\ destinations = 1
    /\ ErrorShown /\ ~LoadingShown
    /\ ~SortShown /\ ~NoPointsShown /\ ~PointsShown
    /\ board.newPointPresenter = "null"

\* C2: once the error view is displayed it stays displayed, and no sort
\* component, no-points view or point presenter is rendered afterwards,
\* whatever notifications follow.
C2_ErrorViewIsFinal ==
    [][ ErrorShown => (ErrorShown' /\ ~SortShown' /\ ~NoPointsShown' /\ ~PointsShown') ]_vars

\* C3: after init() the board shows exactly one of the loading view, the
\* error view, the no-points view and the sort component with the point list.
DisplayStates ==
    { d \in {"loading", "error", "empty", "list"} :
        \/ d = "loading" /\ LoadingShown
        \/ d = "error" /\ ErrorShown
        \/ d = "empty" /\ NoPointsShown
        \/ d = "list" /\ ListShown }

C3_ExactlyOneDisplayState == Started => Cardinality(DisplayStates) = 1


\* C4: a filter item's radio input carries the disabled attribute exactly
\* when the item's count is 0, whichever filter type is current.
HasAttribute(input, word) == \E k \in 1..Len(input.attributes) : input.attributes[k] = word

C4_DisabledIffCountIsZero ==
    template.rendered
    => /\ Len(template.items) = Len(filters)
       /\ \A i \in 1..Len(template.items) :
             /\ template.items[i].value = filters[i].type
             /\ HasAttribute(template.items[i], "disabled") <=> (filters[i].count = 0)
             /\ \A other \in FilterTypes :
                   HasAttribute(createFilterItemTemplate(filters[i], other), "disabled")
                       <=> HasAttribute(template.items[i], "disabled")

\* A rendered view whose current item has no points, beside an item with some.
C4_Witness ==
    /\ template.rendered
    /\ \E i, j \in 1..Len(template.items) :
          /\ filters[i].type = currentFilterType /\ filters[i].count = 0
          /\ HasAttribute(template.items[i], "disabled")
          /\ HasAttribute(template.items[i], "checked")
          /\ filters[j].count > 0 /\ ~HasAttribute(template.items[j], "disabled")

\* C5: the points getter returns exactly the points of the points model that
\* the current filter keeps, none added, dropped or repeated, in the order of
\* the comparator of the current sort type; and a render lists them so.
Kept == { p \in Range(modelPoints) : Matches(modelFilter, p) }

InOrder(q) ==
    \A i, j \in 1..Len(q) :
        i < j => CASE board.currentSortType = "DAY"   -> sortDay(q[i], q[j]) <= 0
                   [] board.currentSortType = "PRICE" -> sortPrice(q[i], q[j]) <= 0
                   [] board.currentSortType = "TIME"  -> sortTime(q[i], q[j]) <= 0

\* The last operation cleared and rendered the board, and did not throw.
Rerendered ==
    /\ InitSucceeded /\ ~board.thrown
    /\ \/ Handled("MINOR")
       \/ Handled("MAJOR")
       \/ last.op = "handleSortTypeChange" /\ ~last.same

C6_PresentersRecreated ==
    (InitSucceeded /\ (Handled("MINOR") \/ Handled("MAJOR")))
    => /\ ~board.thrown
       /\ DOMAIN board.pointPresenters = { p.id : p \in Kept }
       /\ \A p \in Kept : board.pointPresenters[p.id] = p
       /\ Len(board.pointOrder) = Cardinality(Kept)
       /\ ~board.orphans.points

\* C7: after createPoint() returns, following a successful INIT, the filter
\* is EVERYTHING, the sort type is DAY, the board has been cleared and
\* rendered for them, and the new-point form is open.
C7_CreatePointOpensFormLast ==
    (last.op = "createPoint" /\ InitSucceeded)
    => /\ ~board.thrown
       /\ modelFilter = "EVERYTHING"
       /\ board.filterType = "EVERYTHING"
       /\ board.currentSortType = "DAY"
       /\ board.pointOrder = Ids(points("DAY", Models))
       /\ board.newPointPresenter = "open"

\* createPoint() returned with points listed, the form open above them.
C7_Witness ==
    /\ last.op = "createPoint"
    /\ board.newPointPresenter = "open"
    /\ Len(board.pointOrder) = 2
    /\ board.sortComponent = "rendered"

\* C8: after a successful INIT, when a MINOR or MAJOR notification or a sort
\* change has been handled, the no-points view is displayed exactly when no
\* point is visible, and the sort component with the point list exactly when
\* some point is.
C8_EmptyViewIffNoPoints ==
    Rerendered => /\ NoPointsShown <=> (Len(VisiblePoints) = 0)
                  /\ ListShown <=> (Len(VisiblePoints) > 0)

\* C9: a MAJOR notification leaves the sort type DAY; a MINOR or PATCH
\* notification leaves it as it was; a sort change leaves it as requested.
C9_SortTypeAfterHandlers ==
    [][ /\ (last'.op = "handleModelEvent" /\ last'.type = "MAJOR")
            => board'.currentSortType = "DAY"
        /\ (last'.op = "handleModelEvent" /\ last'.type \in {"MINOR", "PATCH"})
            => board'.currentSortType = board.currentSortType
        /\ last'.op = "handleSortTypeChange"
            => board'.currentSortType = last'.type ]_vars

\* A sort change to PRICE that cleared and rendered the board by price.
C9_Witness ==
    /\ last.op = "handleSortTypeChange" /\ ~last.same /\ last.type = "PRICE"
    /\ board.currentSortType = "PRICE"
    /\ board.sortComponent = "rendered"
    /\ ~board.thrown

\* C10: a sort change to the current sort type changes nothing; one to another
\* sort type sets it, clears and renders the board in that order, and leaves
\* the filter as it was.
C10_SortChange ==
    [][ /\ (last'.op = "handleSortTypeChange" /\ last'.same)
            => /\ board' = [board EXCEPT !.thrown = FALSE]
               /\ UNCHANGED modelVars
        /\ (last'.op = "handleSortTypeChange" /\ ~last'.same)
            => /\ ~board'.thrown
               /\ board'.currentSortType = last'.type
               /\ board'.pointOrder = Ids(points(last'.type, Models))
               /\ DOMAIN board'.pointPresenters = Range(board'.pointOrder)
               /\ (board'.sortComponent = "rendered") <=> (board'.pointOrder # << >>)
               /\ board'.newPointPresenter = "closed"
               /\ modelFilter' = modelFilter ]_vars

\* A click on the current sort type with the new-point form open.
C10_Witness ==
    /\ last.op = "handleSortTypeChange" /\ last.same
    /\ board.newPointPresenter = "open"
    /\ Len(board.pointOrder) = 2


\* C11: a PATCH notification for a point initialises the point presenter
\* stored under the point's id with the new data and changes nothing else:
\* not another point presenter, not the keys of the presenter map, the list,
\* the sort component, the sort type, the filter or the new-point form.  With
\* no presenter stored under the id the handler throws and changes nothing.
C11_PatchOnlyThatPresenter ==
    [][ (last'.op = "handleModelEvent" /\ last'.type = "PATCH")
        => LET id   == last'.id
               data == CHOOSE p \in Range(modelPoints') : p.id = id
           IN  /\ DOMAIN board'.pointPresenters = DOMAIN board.pointPresenters
               /\ \A i \in DOMAIN board.pointPresenters :
                     board'.pointPresenters[i] =
                         IF i = id THEN data ELSE board.pointPresenters[i]
               /\ board'.thrown <=> (id \notin DOMAIN board.pointPresenters)
               /\ [board' EXCEPT !.pointPresenters = NoPresenters, !.thrown = FALSE]
                      = [board EXCEPT !.pointPresenters = NoPresenters, !.thrown = FALSE]
               /\ modelFilter' = modelFilter ]_vars

\* A PATCH handled with two points listed and the form open: the presenter of
\* the patched point holds the new data, and the list keeps the order it had,
\* no longer the order of the sort.
C11_Witness ==
    /\ Handled("PATCH") /\ ~board.thrown
    /\ board.newPointPresenter = "open"
    /\ board.sortComponent = "rendered"
    /\ Len(board.pointOrder) = 2
    /\ \E p \in Range(modelPoints) :
          /\ p.id = last.id
          /\ board.pointPresenters[p.id] = p
          /\ board.pointOrder # Ids(VisiblePoints)


\* C13: the filter view renders as checked exactly the items whose type is the
\* current filter type; with distinct item types, one of them current, exactly
\* one item is checked; and an item is checked or not whatever its count is.
CheckedItems == { i \in 1..Len(template.items) : HasAttribute(template.items[i], "checked") }

DistinctTypes == \A i, j \in 1..Len(filters) : i # j => filters[i].type # filters[j].type

C13_CheckedIffCurrent ==
    template.rendered
    => /\ Len(template.items) = Len(filters)
       /\ CheckedItems = { i \in 1..Len(filters) : filters[i].type = currentFilterType }
       /\ (DistinctTypes /\ \E i \in 1..Len(filters) : filters[i].type = currentFilterType)
             => Cardinality(CheckedItems) = 1
       /\ \A i \in 1..Len(filters), c \in 0..MaxCount :
             HasAttribute(createFilterItemTemplate([filters[i] EXCEPT !.count = c],
                                                   currentFilterType), "checked")
                 <=> i \in CheckedItems

\* Two items of distinct types rendered, the current one with no points: it is
\* the only checked item, and it is disabled too.
C13_Witness ==
    /\ template.rendered
    /\ Len(filters) = 2 /\ DistinctTypes
    /\ filters[2].type = currentFilterType /\ filters[2].count = 0
    /\ CheckedItems = {2}
    /\ HasAttribute(template.items[2], "disabled")
    /\ ~HasAttribute(template.items[1], "disabled")


\* C12: a view action is forwarded to one operation of the points model, with
\* the same update type and payload: UPDATE_POINT replaces the point of the
\* payload's id, ADD_POINT adds the payload, DELETE_POINT removes the point of
\* the payload's id; any other action type changes no model.  The board
\* changes only as the handler of the resulting notification changes it.
Notified(a) ==
    /\ last'.op = "handleModelEvent" /\ last'.type = a.updateType
    /\ board' = handleModelEvent([board EXCEPT !.thrown = FALSE], a.updateType, a.update,
                                 [points |-> modelPoints', filter |-> modelFilter',
                                  offersByType |-> offersByType',
                                  destinations |-> destinations'])

C12_ViewActionForwarded ==
    [][ viewAction' # NoViewAction
        => LET a   == viewAction'
               old == { p \in Range(modelPoints) : p.id = a.update.id }
           IN  /\ UNCHANGED <<modelFilter, offersByType, destinations>>
               /\ a.actionType = "UPDATE_POINT"
                     => /\ old # {}
                        /\ Ids(modelPoints') = Ids(modelPoints)
                        /\ Range(modelPoints') = (Range(modelPoints) \ old) \cup {a.update}
                        /\ Notified(a)
               /\ a.actionType = "ADD_POINT"
                     => /\ old = {}
                        /\ Len(modelPoints') = Len(modelPoints) + 1
                        /\ Range(modelPoints') = Range(modelPoints) \cup {a.update}
                        /\ Notified(a)
               /\ a.actionType = "DELETE_POINT"
                     => /\ old # {}
                        /\ Len(modelPoints') = Len(modelPoints) - 1
                        /\ Range(modelPoints') = Range(modelPoints) \ old
                        /\ Notified(a)
               /\ a.actionType \notin UserActions
                     => /\ modelPoints' = modelPoints
                        /\ board' = [board EXCEPT !.thrown = FALSE]
                        /\ last'.op = "handleViewAction" ]_vars

\* A DELETE_POINT forwarded with MINOR: the point is gone from the model and
\* the board lists the one that is left.
C12_Witness ==
    /\ viewAction.actionType = "DELETE_POINT" /\ viewAction.updateType = "MINOR"
    /\ Handled("MINOR") /\ ~board.thrown
    /\ Len(modelPoints) = 1
    /\ modelPoints[1].id # viewAction.update.id
    /\ board.pointOrder = Ids(modelPoints)

=============================================================================
